---- MODULE Spec2Model ----
(***************************************************************************)
(* A model of pandas/io/packers.py: the msgpack reader/writer entry        *)
(* points, the streaming Iterator, the raw buffer codec (convert /         *)
(* unconvert) and the encode / decode dispatch.                            *)
(***************************************************************************)
EXTENDS Integers, Sequences, FiniteSets, TLC

\* ------------------------------------------------------------------ bounds

\* The largest number of top-level objects a source holds.
MaxObjs == 2
\* The largest number of generators one Iterator hands out.
MaxGens == 2

\* ============================================================ stream side
\* read_msgpack and Iterator: sources, streams and generator frames.

VARIABLES
    source,     \* what the caller passes: [kind, data]
    streams,    \* every stream that exists: [owner, open, pos, closedBy]
    it,         \* the Iterator object: [made, path, fh]
    gens,       \* the generator frames made by Iterator.__iter__
    result      \* the outcome of the read_msgpack call

streamVars == <<source, streams, it, gens, result>>

\* The codec side: the module's compressor and one object on its way
\* through encode and decode.
VARIABLES
    compressor, \* the module-level compression setting
    o,          \* pack(o): the object handed to the writer
    rec,        \* what encode made of it (or a record from elsewhere)
    dec,        \* what decode made of the record
    bad_move    \* whether moving the decompressed bytes raised BadMove

codecVars == <<compressor, o, rec, dec, bad_move>>

\* The writer side: the to_msgpack calls made so far.
VARIABLES
    calls       \* per call: [compress, args, pc, out, status, err]

writeVars == <<calls>>

vars == <<streamVars, codecVars, writeVars>>

\* A top-level object in a source is well formed ("obj") or makes the
\* unpacker raise ("bad").
Items == {"obj", "bad"}

RECURSIVE SeqsUpTo(_, _)
SeqsUpTo(S, n) ==
    IF n = 0 THEN {<<>>}
    ELSE LET shorter == SeqsUpTo(S, n - 1)
         IN  shorter \cup {Append(s, x) : s \in {t \in shorter : Len(t) = n - 1}, x \in S}

\* The kinds of path_or_buf: a str naming an existing file, a str naming
\* none, a bytes object, an open stream with a read attribute, a url that
\* get_filepath_or_buffer resolves to a buffer, and anything else.
SourceKinds == {"path", "missing", "bytes", "stream", "url", "other"}

NoResult == [outcome |-> "none", type |-> "none", n |-> 0]
NoIterator == [made |-> FALSE, path |-> "none", fh |-> 0]

NewStream(owner) == [owner |-> owner, open |-> TRUE, pos |-> 0, closedBy |-> "none"]

\* stream.close() called by `who`; closing a closed stream changes nothing.
CloseStream(ss, i, who) ==
    IF ss[i].open
    THEN [ss EXCEPT ![i] = [@ EXCEPT !.open = FALSE, !.closedBy = who]]
    ELSE ss

\* get_filepath_or_buffer: a url is fetched into a fresh buffer that the
\* caller should close; every other source is handed back as it is.
GetFilepathOrBuffer(kind, ss) ==
    IF kind = "url"
    THEN [path |-> "stream", fh |-> Len(ss) + 1, should_close |-> TRUE,
          streams |-> Append(ss, NewStream("resolver"))]
    ELSE [path |-> kind, fh |-> IF kind = "stream" THEN 1 ELSE 0,
          should_close |-> FALSE, streams |-> ss]

\* list(unpack(fh)): reads the stream from its position to the end; a
\* malformed object makes the unpacker raise.
UnpackAll(ss, fh) ==
    LET s    == ss[fh]
        rest == SubSeq(source.data, s.pos + 1, Len(source.data))
        bad  == \E k \in 1..Len(rest) : rest[k] = "bad"
    IN  [raised |-> bad,
         n |-> Len(rest),
         streams |-> [ss EXCEPT ![fh] = [@ EXCEPT !.pos = Len(source.data)]]]

\* read_msgpack.read(fh): one object is returned bare, before the
\* should_close clean-up; otherwise the buffer that source resolution
\* marked is closed and the list is returned.
Read(ss, fh, should_close, path_or_buf) ==
    LET u == UnpackAll(ss, fh)
    IN  IF u.raised
        THEN [res |-> [outcome |-> "raise", type |-> "UnpackValueError", n |-> 0],
              streams |-> u.streams]
        ELSE IF u.n = 1
        THEN [res |-> [outcome |-> "return", type |-> "object", n |-> 1],
              streams |-> u.streams]
        ELSE [res |-> [outcome |-> "return", type |-> "list", n |-> u.n],
              streams |-> IF should_close
                          THEN CloseStream(u.streams, path_or_buf, "read")
                          ELSE u.streams]

\* The eager part of read_msgpack, after source resolution.
ReadEager(r) ==
    CASE r.path = "path" ->
            \* with open(path_or_buf, 'rb') as fh: return read(fh)
            LET ss == Append(r.streams, NewStream("read"))
                rd == Read(ss, Len(ss), r.should_close, r.fh)
            IN  [res |-> rd.res, streams |-> CloseStream(rd.streams, Len(ss), "read")]
      [] r.path = "missing" ->
            \* return FileNotFoundError(...): the exception object is returned
            [res |-> [outcome |-> "return", type |-> "FileNotFoundError", n |-> 0],
             streams |-> r.streams]
      [] r.path = "bytes" ->
            LET ss == Append(r.streams, NewStream("read"))
                rd == Read(ss, Len(ss), r.should_close, r.fh)
            IN  [res |-> rd.res, streams |-> CloseStream(rd.streams, Len(ss), "read")]
      [] r.path = "stream" ->
            Read(r.streams, r.fh, r.should_close, r.fh)
      [] OTHER ->
            [res |-> [outcome |-> "raise", type |-> "ValueError", n |-> 0],
             streams |-> r.streams]

\* read_msgpack(path_or_buf, iterator=iterator)
ReadMsgpack(iterator) ==
    /\ result.outcome = "none"
    /\ ~it.made
    /\ LET r == GetFilepathOrBuffer(source.kind, streams)
       IN  IF iterator
           THEN /\ it' = [made |-> TRUE, path |-> r.path, fh |-> r.fh]
                /\ result' = [outcome |-> "return", type |-> "Iterator", n |-> 0]
                /\ streams' = r.streams
           ELSE LET e == ReadEager(r)
                IN  /\ result' = e.res
                    /\ streams' = e.streams
                    /\ it' = it
    /\ UNCHANGED <<source, gens, codecVars, writeVars>>

\* Iterator(path): the constructor only stores the path.
IteratorInit ==
    /\ ~it.made
    /\ result.outcome = "none"
    /\ source.kind # "url"
    /\ it' = [made |-> TRUE, path |-> source.kind,
              fh |-> IF source.kind = "stream" THEN 1 ELSE 0]
    /\ UNCHANGED <<source, streams, gens, result, codecVars, writeVars>>

\* A generator frame of Iterator.__iter__: where it stands, its locals
\* needs_closing and fh (0: not bound), and what it has produced or raised.
NewGen == [pc |-> "created", needs_closing |-> TRUE, fh |-> 0,
           yielded |-> 0, error |-> "none"]

Finished == {"done", "failed", "closed"}

\* iter(it): calling a generator function runs none of its body.
IterCall ==
    /\ it.made
    /\ Len(gens) < MaxGens
    /\ gens' = Append(gens, NewGen)
    /\ UNCHANGED <<source, streams, it, result, codecVars, writeVars>>

\* The mutated source test: every source is taken to need closing.
IterOpenAlwaysCloses(path, fh, ss) ==
    CASE path \in {"path", "bytes"} ->
            [raised |-> FALSE, needs_closing |-> TRUE, fh |-> Len(ss) + 1,
             streams |-> Append(ss, NewStream("iter"))]
      [] path = "stream" ->
            [raised |-> FALSE, needs_closing |-> TRUE, fh |-> fh, streams |-> ss]
      [] OTHER ->
            [raised |-> TRUE, needs_closing |-> TRUE, fh |-> 0, streams |-> ss]

\* The first part of the try block: bind fh.  An existing path is opened, a
\* bytes object is wrapped in BytesIO, an object with a read attribute is
\* used as it is and marked as not to be closed; BytesIO of a str that names
\* no file (or of any other object) raises TypeError and leaves fh unbound.
IterOpen(path, fh, ss) ==
    CASE path \in {"path", "bytes"} ->
            [raised |-> FALSE, needs_closing |-> TRUE, fh |-> Len(ss) + 1,
             streams |-> Append(ss, NewStream("iter"))]
      [] path = "stream" ->
            [raised |-> FALSE, needs_closing |-> FALSE, fh |-> fh, streams |-> ss]
      [] OTHER ->
            [raised |-> TRUE, needs_closing |-> TRUE, fh |-> 0, streams |-> ss]

\* The finally block: close fh when needs_closing.  With fh unbound, naming
\* it raises UnboundLocalError, which replaces the exception in flight.
IterFinally(g, ss, pc, error) ==
    IF g.needs_closing
    THEN IF g.fh = 0
         THEN [gen |-> [g EXCEPT !.pc = "failed", !.error = "UnboundLocalError"],
               streams |-> ss]
         ELSE [gen |-> [g EXCEPT !.pc = pc, !.error = error],
               streams |-> CloseStream(ss, g.fh, "iter")]
    ELSE [gen |-> [g EXCEPT !.pc = pc, !.error = error], streams |-> ss]

\* for o in unpacker: yield o -- one turn of the loop, then on to the
\* finally block unless the generator is suspended at the yield.
IterLoop(g, ss) ==
    LET s == ss[g.fh]
    IN  IF ~s.open
        THEN IterFinally(g, ss, "failed", "ValueError")
        ELSE IF s.pos = Len(source.data)
        THEN IterFinally(g, ss, "done", "none")
        ELSE IF source.data[s.pos + 1] = "bad"
        THEN IterFinally(g, [ss EXCEPT ![g.fh] = [@ EXCEPT !.pos = @ + 1]],
                         "failed", "UnpackValueError")
        ELSE [gen |-> [g EXCEPT !.pc = "suspended", !.yielded = @ + 1],
              streams |-> [ss EXCEPT ![g.fh] = [@ EXCEPT !.pos = @ + 1]]]

\* next(gen): a fresh generator runs from the top of __iter__, a suspended
\* one resumes after the yield.
GenNext(i) ==
    /\ gens[i].pc \in {"created", "suspended"}
    /\ LET g == gens[i]
           opened == IterOpen(it.path, it.fh, streams)
           g1 == [g EXCEPT !.needs_closing = opened.needs_closing, !.fh = opened.fh]
           step == IF g.pc = "suspended" THEN IterLoop(g, streams)
                   ELSE IF opened.raised
                   THEN IterFinally(g1, opened.streams, "failed", "TypeError")
                   ELSE IterLoop(g1, opened.streams)
       IN  /\ gens' = [gens EXCEPT ![i] = step.gen]
           /\ streams' = step.streams
    /\ UNCHANGED <<source, it, result, codecVars, writeVars>>

\* gen.close(), also what dropping the generator does (a break out of the
\* for loop): GeneratorExit is raised at the yield and the finally block
\* runs; a generator that never started just ends.
GenClose(i) ==
    /\ gens[i].pc \in {"created", "suspended"}
    /\ LET g == gens[i]
           step == IF g.pc = "created"
                   THEN [gen |-> [g EXCEPT !.pc = "closed"], streams |-> streams]
                   ELSE IterFinally(g, streams, "closed", "none")
       IN  /\ gens' = [gens EXCEPT ![i] = step.gen]
           /\ streams' = step.streams
    /\ UNCHANGED <<source, it, result, codecVars, writeVars>>

\* ======================================================= raw buffer codec
\* convert / unconvert: typed arrays to bytes and back.

\* The largest element (a bit pattern) an array of the model holds.
MaxElem == 1
\* The largest number of elements an array of the model holds.
MaxSize == 2

\* Python's None, and the values `if compress:` takes as false.
None == "<None>"
Falsy == {None, ""}

\* The dtypes of the model, by str(dtype); ByteDtypes are flattened to raw
\* memory, "object" and "category" are kept as sequences of elements.
ByteDtypes == {"int64", "int32", "int8", "float64", "M8[ns]"}
Dtypes == ByteDtypes \cup {"object"}

\* dtype.name
DtypeName(d) ==
    CASE d = "M8[ns]" -> "datetime64[ns]"
      [] d = "m8[ns]" -> "timedelta64[ns]"
      [] OTHER -> d

\* dtype.itemsize
ItemSize(d) ==
    CASE d = "int8" -> 1
      [] d = "int32" -> 4
      [] OTHER -> 8

\* needs_i8_conversion(dtype): the datetime-like dtypes
NeedsI8Conversion(d) == d \in {"M8[ns]", "m8[ns]", "M8[us]", "m8[us]"}

\* dtype_dict, by its str keys (a record that encode writes names a dtype
\* by dtype.name, never by a type number).
DtypeDictKeys ==
    {"datetime64[ns]", "datetime64[us]", "timedelta64[ns]", "timedelta64[us]",
     "category"}
DtypeDict(t) ==
    CASE t = "datetime64[ns]" -> "M8[ns]"
      [] t = "datetime64[us]" -> "M8[us]"
      [] t = "timedelta64[ns]" -> "m8[ns]"
      [] t = "timedelta64[us]" -> "m8[us]"
      [] t = "category" -> "category"

\* np.typeDict: the names of numpy's scalar types.  A datetime64 or
\* timedelta64 name with a unit is none of its keys.
TypeDictKeys ==
    {"int64", "int32", "int8", "float64", "float32", "object", "bool",
     "complex64", "complex128", "complex256", "datetime64", "timedelta64"}

\* dtype_for(t)
DtypeFor(t) ==
    IF t \in DtypeDictKeys THEN DtypeDict(t)
    ELSE t

\* One element's memory: `size` bytes, least significant first.
RECURSIVE LittleEndian(_, _)
LittleEndian(e, size) ==
    IF size = 0 THEN <<>>
    ELSE <<e % 256>> \o LittleEndian(e \div 256, size - 1)

RECURSIVE FromLittleEndian(_)
FromLittleEndian(bs) ==
    IF bs = <<>> THEN 0
    ELSE Head(bs) + 256 * FromLittleEndian(Tail(bs))

\* v.tostring(): the elements' memory, in C order.
RECURSIVE ArrayToString(_, _)
ArrayToString(data, size) ==
    IF data = <<>> THEN <<>>
    ELSE LittleEndian(Head(data), size) \o ArrayToString(Tail(data), size)

RECURSIVE SumBytes(_)
SumBytes(bs) == IF bs = <<>> THEN 0 ELSE Head(bs) + SumBytes(Tail(bs))

\* zlib.compress / zlib.decompress: a header byte, the data and a checksum;
\* decompress raises zlib.error on anything else.
ZlibCompress(bs) == <<120>> \o bs \o <<SumBytes(bs) % 256>>
ZlibDecompress(bs) ==
    IF /\ Len(bs) >= 2
       /\ bs[1] = 120
       /\ bs[Len(bs)] = SumBytes(SubSeq(bs, 2, Len(bs) - 1)) % 256
    THEN [ok |-> TRUE, data |-> SubSeq(bs, 2, Len(bs) - 1)]
    ELSE [ok |-> FALSE, data |-> <<>>]

\* blosc.compress(v, typesize=...) / blosc.decompress: a header of the
\* format version and the type size, then the data.
BloscCompress(bs, typesize) == <<2, typesize>> \o bs
BloscDecompress(bs) ==
    IF Len(bs) >= 2 /\ bs[1] = 2
    THEN [ok |-> TRUE, data |-> SubSeq(bs, 3, Len(bs))]
    ELSE [ok |-> FALSE, data |-> <<>>]

\* ExtType(code, data), a plain sequence of elements, or a str payload.
ExtType(code, data) == [kind |-> "ext", code |-> code, data |-> data]
ListOf(data) == [kind |-> "list", code |-> 0, data |-> data]

\* convert(values), with `comp` the module's compressor as it is read.  A
\* datetime-like array is viewed as i8 (the same 8-byte elements) first.
Convert(values, comp) ==
    IF values.dtype = "category" THEN [kind |-> "categorical", code |-> 0, data |-> values.data]
    ELSE IF values.dtype = "object" THEN ListOf(values.data)
    ELSE LET size == IF NeedsI8Conversion(values.dtype) THEN 8
                     ELSE ItemSize(values.dtype)
             v == ArrayToString(values.data, size)
         IN  IF comp = "zlib" THEN ExtType(0, ZlibCompress(v))
             ELSE IF comp = "blosc"
             THEN ExtType(0, BloscCompress(v, ItemSize(values.dtype)))
             ELSE ExtType(0, v)

\* What unconvert gives back: an array (1-d), or the exception it raised.
Restored(dtype, data, warned) ==
    [outcome |-> "return", err |-> "none", dtype |-> dtype, data |-> data,
     writable |-> TRUE, warned |-> warned]
RestoreFailed(err) ==
    [outcome |-> "raise", err |-> err, dtype |-> "none", data |-> <<>>,
     writable |-> FALSE, warned |-> FALSE]

\* np.frombuffer(values, dtype=dtype)
FromBuffer(bs, dtype, warned) ==
    LET size == ItemSize(dtype)
    IN  IF Len(bs) % size # 0 THEN RestoreFailed("ValueError")
        ELSE Restored(dtype,
                      [k \in 1..(Len(bs) \div size) |->
                          FromLittleEndian(SubSeq(bs, (k - 1) * size + 1, k * size))],
                      warned)

\* The mutated recovery from BadMove: the warning is emitted whatever the
\* length of the recovered data.
UnconvertAlwaysWarns(values, dtype, compress, badMove) ==
    LET as_is_ext == values.kind = "ext" /\ values.code = 0
    IN  IF dtype = "category" THEN Restored(dtype, values.data, FALSE)
        ELSE IF dtype = "object" THEN Restored("object", values.data, FALSE)
        ELSE IF ~as_is_ext /\ values.kind # "str" THEN RestoreFailed("AttributeError")
        ELSE IF compress \notin Falsy
        THEN IF compress \notin {"zlib", "blosc"} THEN RestoreFailed("ValueError")
             ELSE LET d == IF compress = "zlib" THEN ZlibDecompress(values.data)
                           ELSE BloscDecompress(values.data)
                  IN  IF ~d.ok THEN RestoreFailed("error")
                      ELSE IF badMove
                      THEN FromBuffer(d.data, dtype, TRUE)
                      ELSE FromBuffer(d.data, dtype, FALSE)
        ELSE FromBuffer(values.data, dtype, FALSE)

\* unconvert(values, dtype, compress); pandas_dtype(dtype).base is the
\* dtype itself for the dtypes of the model.  badMove: whether moving the
\* decompressed bytes into a mutable buffer raises BadMove (it does when
\* the backend holds another reference to them).
Unconvert(values, dtype, compress, badMove) ==
    LET as_is_ext == values.kind = "ext" /\ values.code = 0
    IN  IF dtype = "category" THEN Restored(dtype, values.data, FALSE)
        ELSE IF dtype = "object" THEN Restored("object", values.data, FALSE)
        ELSE IF ~as_is_ext /\ values.kind # "str" THEN RestoreFailed("AttributeError")
        ELSE IF compress \notin Falsy
        THEN IF compress \notin {"zlib", "blosc"} THEN RestoreFailed("ValueError")
             ELSE LET d == IF compress = "zlib" THEN ZlibDecompress(values.data)
                           ELSE BloscDecompress(values.data)
                  IN  IF ~d.ok THEN RestoreFailed("error")
                      ELSE IF badMove
                      THEN FromBuffer(d.data, dtype, Len(d.data) > 1)
                      ELSE FromBuffer(d.data, dtype, FALSE)
        ELSE FromBuffer(values.data, dtype, FALSE)

\* ================================================================= encode
\* Objects are records with a cls field naming their class.

\* The classes of the objects handed to encode, and for each the classes
\* encode tests for that it is an instance of (itself included).
Mro(cls) ==
    CASE cls = "RangeIndex" -> {"RangeIndex", "Int64Index", "Index"}
      [] cls = "Int64Index" -> {"Int64Index", "Index"}
      [] cls = "Index" -> {"Index"}
      [] cls = "PeriodIndex" -> {"PeriodIndex", "Index"}
      [] cls = "DatetimeIndex" -> {"DatetimeIndex", "Index"}
      [] cls = "IntervalIndex" -> {"IntervalIndex", "Index"}
      [] cls = "MultiIndex" -> {"MultiIndex", "Index"}
      [] cls = "IntervalArray" -> {"IntervalArray"}
      [] cls = "Categorical" -> {"Categorical"}
      [] cls = "Series" -> {"Series", "NDFrame"}
      [] cls = "SparseSeries" -> {"SparseSeries", "Series", "NDFrame"}
      [] cls = "DataFrame" -> {"DataFrame", "NDFrame"}
      [] cls = "SparseDataFrame" -> {"SparseDataFrame", "DataFrame", "NDFrame"}
      [] cls = "Timestamp" -> {"Timestamp", "datetime", "date"}
      [] cls = "NaTType" -> {"NaTType", "datetime", "date"}
      [] cls = "datetime" -> {"datetime", "date"}
      [] cls = "date" -> {"date"}
      [] cls = "timedelta" -> {"timedelta"}
      [] cls = "datetime64" -> {"datetime64"}
      [] cls = "timedelta64" -> {"timedelta64", "number"}
      [] cls = "Period" -> {"Period"}
      [] cls = "Interval" -> {"Interval"}
      [] cls = "BlockIndex" -> {"BlockIndex"}
      [] cls = "IntIndex" -> {"IntIndex"}
      [] cls = "ndarray" -> {"ndarray"}
      [] cls = "float64" -> {"float64", "number", "float"}
      [] cls = "int64" -> {"int64", "number"}
      [] cls = "complex64" -> {"complex64", "number"}
      [] cls = "complex128" -> {"complex128", "number", "complex"}
      [] cls = "complex" -> {"complex"}
      [] OTHER -> {cls}

IsInstance(obj, c) == c \in Mro(obj.cls)

\* getattr(obj, f, None) on the record that stands for obj
GetAttr(obj, f) == IF f \in DOMAIN obj THEN obj[f] ELSE None

\* A call's outcome: the value it returns or the exception it raises.
Return(v) == [outcome |-> "return", err |-> "none", value |-> v]
Raise(err) == [outcome |-> "raise", err |-> err, value |-> None]

\* float.__repr__ / np.floating.__repr__ of a float with an integer value
\* below ten: "1.0", "-1.0".
DigitChars == <<"0", "1", "2", "3", "4", "5", "6", "7", "8", "9">>
ReprFloat(x) ==
    (IF x < 0 THEN <<"-">> ELSE <<>>)
        \o <<DigitChars[(IF x < 0 THEN -x ELSE x) + 1], ".", "0">>

\* int.__repr__ of an integer below ten in size
ReprInt(x) ==
    (IF x < 0 THEN <<"-">> ELSE <<>>) \o <<DigitChars[(IF x < 0 THEN -x ELSE x) + 1]>>

\* -------------------------------------------------------------- tables
\* A table's block: [dtype, klass, mgr_locs, values], values an array of
\* shape <<number of columns in the block, number of rows>>; mgr_locs the
\* positions (from 0) of the block's columns in the table.

Range(f) == {f[x] : x \in DOMAIN f}

RECURSIVE SortedSeq(_)
SortedSeq(S) ==
    IF S = {} THEN <<>>
    ELSE LET m == CHOOSE x \in S : \A y \in S : x <= y
         IN  <<m>> \o SortedSeq(S \ {m})

RECURSIVE Distinct(_)
Distinct(seq) ==
    IF seq = <<>> THEN <<>>
    ELSE LET r == Distinct(SubSeq(seq, 1, Len(seq) - 1))
             x == seq[Len(seq)]
         IN  IF x \in Range(r) THEN r ELSE Append(r, x)

RECURSIVE Concat(_)
Concat(seqs) == IF seqs = <<>> THEN <<>> ELSE Head(seqs) \o Concat(Tail(seqs))

\* Row k of a 2-d array (a column of the table).
RowOf(values, k) ==
    SubSeq(values.data, (k - 1) * values.shape[2] + 1, k * values.shape[2])

\* The values of the table's column at position p (from 0), or <<>> when no
\* block, or more than one, is placed there.
ColumnAt(blocks, p) ==
    LET at == UNION {{<<i, k>> : k \in {k \in 1..Len(blocks[i].mgr_locs) :
                                            blocks[i].mgr_locs[k] = p}} :
                     i \in 1..Len(blocks)}
    IN  IF Cardinality(at) # 1 THEN <<>>
        ELSE LET ik == CHOOSE x \in at : TRUE
             IN  RowOf(blocks[ik[1]].values, ik[2])

\* data.is_consolidated(): no two blocks of one dtype
IsConsolidated(blocks) ==
    \A i, j \in 1..Len(blocks) : i # j => blocks[i].dtype # blocks[j].dtype

\* data.consolidate(): the blocks of one dtype are merged into one block
\* that holds their columns in the order of their positions.
Consolidate(blocks) ==
    LET dts == Distinct([i \in 1..Len(blocks) |-> blocks[i].dtype])
    IN  [n \in 1..Len(dts) |->
            LET mine == {j \in 1..Len(blocks) : blocks[j].dtype = dts[n]}
                locs == SortedSeq(UNION {Range(blocks[j].mgr_locs) : j \in mine})
                first == blocks[CHOOSE j \in mine : \A k \in mine : j <= k]
            IN  [dtype |-> dts[n],
                 klass |-> first.klass,
                 mgr_locs |-> locs,
                 values |-> [dtype |-> dts[n],
                             shape |-> <<Len(locs), first.values.shape[2]>>,
                             data |-> Concat([k \in 1..Len(locs) |->
                                                 ColumnAt(blocks, locs[k])])]]]

\* The mutated block entry: locs counts the block's own columns.
EncodeBlockLocalLocs(b, comp) ==
    [locs |-> [k \in 1..Len(b.mgr_locs) |-> k - 1],
     values |-> Convert(b.values, comp),
     shape |-> b.values.shape,
     dtype |-> DtypeName(b.dtype),
     klass |-> b.klass,
     compress |-> comp]

\* One entry of the 'blocks' list that encode writes for a table.
EncodeBlock(b, comp) ==
    [locs |-> b.mgr_locs,
     values |-> Convert(b.values, comp),
     shape |-> b.values.shape,
     dtype |-> DtypeName(b.dtype),
     klass |-> b.klass,
     compress |-> comp]

\* The mutated sparse test: a sparse container is encoded as its dense
\* base class is.
EncodeNDFrameNoSparseCheck(obj, comp) ==
    IF IsInstance(obj, "Series")
    THEN Return([typ |-> "series",
                 klass |-> obj.cls,
                 name |-> GetAttr(obj, "name"),
                 index |-> obj.index,
                 dtype |-> DtypeName(obj.values.dtype),
                 data |-> Convert(obj.values, comp),
                 compress |-> comp])
    ELSE LET data == IF IsConsolidated(obj.blocks) THEN obj.blocks
                     ELSE Consolidate(obj.blocks)
         IN  Return([typ |-> "block_manager",
                     klass |-> obj.cls,
                     axes |-> obj.axes,
                     blocks |-> [i \in 1..Len(data) |-> EncodeBlock(data[i], comp)]])

\* encode, the Series and NDFrame branches.
EncodeNDFrame(obj, comp) ==
    IF IsInstance(obj, "Series")
    THEN IF IsInstance(obj, "SparseSeries")
         THEN Raise("NotImplementedError")
         ELSE Return([typ |-> "series",
                      klass |-> obj.cls,
                      name |-> GetAttr(obj, "name"),
                      index |-> obj.index,
                      dtype |-> DtypeName(obj.values.dtype),
                      data |-> Convert(obj.values, comp),
                      compress |-> comp])
    ELSE IF IsInstance(obj, "SparseDataFrame")
         THEN Raise("NotImplementedError")
         ELSE LET data == IF IsConsolidated(obj.blocks) THEN obj.blocks
                          ELSE Consolidate(obj.blocks)
              IN  Return([typ |-> "block_manager",
                          klass |-> obj.cls,
                          axes |-> obj.axes,
                          blocks |-> [i \in 1..Len(data) |-> EncodeBlock(data[i], comp)]])

\* encode, the Index branch.
EncodeIndex(obj, comp) ==
    IF IsInstance(obj, "RangeIndex")
    THEN Return([typ |-> "range_index", klass |-> obj.cls,
                 name |-> GetAttr(obj, "name"),
                 start |-> obj.start, stop |-> obj.stop, step |-> obj.step])
    ELSE IF IsInstance(obj, "PeriodIndex")
    THEN Return([typ |-> "period_index", klass |-> obj.cls,
                 name |-> GetAttr(obj, "name"),
                 freq |-> GetAttr(obj, "freqstr"),
                 dtype |-> obj.dtype,
                 data |-> Convert(obj.asi8, comp),
                 compress |-> comp])
    ELSE IF IsInstance(obj, "DatetimeIndex")
    THEN \* a zone-aware index is converted to UTC: asi8 is UTC already
         Return([typ |-> "datetime_index", klass |-> obj.cls,
                 name |-> GetAttr(obj, "name"),
                 dtype |-> IF GetAttr(obj, "tz") = None THEN "datetime64[ns]"
                           ELSE "datetime64[ns, UTC]",
                 data |-> Convert(obj.asi8, comp),
                 freq |-> GetAttr(obj, "freqstr"),
                 tz |-> GetAttr(obj, "tz"),
                 compress |-> comp])
    ELSE IF IsInstance(obj, "IntervalIndex") \/ IsInstance(obj, "IntervalArray")
    THEN Return([typ |-> IF IsInstance(obj, "IntervalIndex") THEN "interval_index"
                         ELSE "interval_array",
                 klass |-> obj.cls,
                 name |-> GetAttr(obj, "name"),
                 left |-> GetAttr(obj, "left"),
                 right |-> GetAttr(obj, "right"),
                 closed |-> GetAttr(obj, "closed")])
    ELSE IF IsInstance(obj, "MultiIndex")
    THEN Return([typ |-> "multi_index", klass |-> obj.cls,
                 names |-> GetAttr(obj, "names"),
                 dtype |-> DtypeName(obj.values.dtype),
                 data |-> Convert(obj.values, comp),
                 compress |-> comp])
    ELSE Return([typ |-> "index", klass |-> obj.cls,
                 name |-> GetAttr(obj, "name"),
                 dtype |-> DtypeName(obj.values.dtype),
                 data |-> Convert(obj.values, comp),
                 compress |-> comp])

\* encode, the branch of datetime, date, timedelta and their numpy kin.
EncodeDatetimeLike(obj) ==
    IF IsInstance(obj, "Timestamp")
    THEN Return([typ |-> "timestamp", value |-> obj.value,
                 freq |-> obj.freq, tz |-> obj.tz])
    ELSE IF obj.cls = "NaTType" THEN Return([typ |-> "nat"])
    ELSE IF IsInstance(obj, "timedelta64")
    THEN Return([typ |-> "timedelta64", data |-> obj.value])
    ELSE IF IsInstance(obj, "timedelta")
    THEN Return([typ |-> "timedelta",
                 data |-> <<obj.days, obj.seconds, obj.microseconds>>])
    ELSE IF IsInstance(obj, "datetime64")
    THEN Return([typ |-> "datetime64", data |-> obj.iso])
    ELSE IF IsInstance(obj, "datetime")
    THEN Return([typ |-> "datetime", data |-> obj.iso])
    ELSE IF IsInstance(obj, "date")
    THEN Return([typ |-> "date", data |-> obj.iso])
    ELSE Raise("Exception")

\* encode, the np.number and complex branches: the parts of a complex are
\* written as the repr of a float.
EncodeNumber(obj) ==
    IF IsInstance(obj, "number")
    THEN IF obj.cls \in {"complex64", "complex128", "complex256"}
         THEN Return([typ |-> "np_scalar", sub_typ |-> "np_complex",
                      dtype |-> obj.cls,
                      real |-> ReprFloat(obj.re), imag |-> ReprFloat(obj.im)])
         ELSE Return([typ |-> "np_scalar", dtype |-> obj.cls,
                      data |-> IF obj.cls = "float64" THEN ReprFloat(obj.value)
                               ELSE ReprInt(obj.value)])
    ELSE Return([typ |-> "np_complex",
                 real |-> ReprFloat(obj.re), imag |-> ReprFloat(obj.im)])

\* encode(obj), with `comp` the module's compressor as it is read.
Encode(obj, comp) ==
    IF IsInstance(obj, "Index") THEN EncodeIndex(obj, comp)
    ELSE IF IsInstance(obj, "Categorical")
    THEN Return([typ |-> "category", klass |-> obj.cls,
                 name |-> GetAttr(obj, "name"),
                 codes |-> obj.codes, categories |-> obj.categories,
                 ordered |-> obj.ordered, compress |-> comp])
    ELSE IF IsInstance(obj, "Series") \/ IsInstance(obj, "NDFrame")
    THEN EncodeNDFrame(obj, comp)
    ELSE IF \/ \E c \in {"datetime", "date", "datetime64", "timedelta", "timedelta64"} :
                  IsInstance(obj, c)
            \/ obj.cls = "NaTType"
    THEN EncodeDatetimeLike(obj)
    ELSE IF IsInstance(obj, "Period")
    THEN Return([typ |-> "period", ordinal |-> obj.ordinal, freq |-> obj.freqstr])
    ELSE IF IsInstance(obj, "Interval")
    THEN Return([typ |-> "interval", left |-> obj.left, right |-> obj.right,
                 closed |-> obj.closed])
    ELSE IF IsInstance(obj, "BlockIndex")
    THEN Return([typ |-> "block_index", klass |-> obj.cls, blocs |-> obj.blocs,
                 blengths |-> obj.blengths, length |-> obj.length])
    ELSE IF IsInstance(obj, "IntIndex")
    THEN Return([typ |-> "int_index", klass |-> obj.cls,
                 indices |-> obj.indices, length |-> obj.length])
    ELSE IF IsInstance(obj, "ndarray")
    THEN Return([typ |-> "ndarray", shape |-> obj.shape, ndim |-> Len(obj.shape),
                 dtype |-> DtypeName(obj.dtype),
                 data |-> Convert(obj, comp),
                 compress |-> comp])
    ELSE IF IsInstance(obj, "number") \/ IsInstance(obj, "complex")
    THEN EncodeNumber(obj)
    ELSE Return(obj)

\* ================================================================= decode

\* obj.get(k)
Get(obj, k) == IF k \in DOMAIN obj THEN obj[k] ELSE None

\* What decode gives back: the value it returns or the exception it
\* raises, and whether a PerformanceWarning was emitted on the way.
Decoded(v, warned) == [outcome |-> "return", err |-> "none", value |-> v, warned |-> warned]
DecodeFailed(err) == [outcome |-> "raise", err |-> err, value |-> None, warned |-> FALSE]

\* The tags decode dispatches on.
DispatchTags ==
    {"timestamp", "nat", "period", "index", "range_index", "multi_index",
     "period_index", "datetime_index", "interval_index", "interval_array",
     "category", "interval", "series", "block_manager", "datetime",
     "datetime64", "date", "timedelta", "timedelta64", "block_index",
     "int_index", "ndarray", "np_scalar", "np_complex"}

DigitValue(c) == (CHOOSE k \in 1..10 : DigitChars[k] = c) - 1
IsDigit(c) == \E k \in 1..10 : DigitChars[k] = c

\* The longest prefix of cs that reads as a float, "d.d" with at most one
\* sign before it: [n: the characters taken (0: none), value].
PrefixFloat(cs) ==
    LET signed == Len(cs) >= 1 /\ cs[1] \in {"+", "-"}
        body == IF signed THEN Tail(cs) ELSE cs
    IN  IF Len(body) >= 3 /\ IsDigit(body[1]) /\ body[2] = "." /\ IsDigit(body[3])
        THEN [n |-> (IF signed THEN 4 ELSE 3),
              value |-> (IF signed /\ cs[1] = "-" THEN -1 ELSE 1) * DigitValue(body[1])]
        ELSE [n |-> 0, value |-> 0]

\* float(s), np.float64(s): the whole of s is one float
ParseFloat(cs) ==
    LET f == PrefixFloat(cs)
    IN  IF f.n > 0 /\ f.n = Len(cs) THEN [ok |-> TRUE, value |-> f.value]
        ELSE [ok |-> FALSE, value |-> 0]

\* int(s), np.int64(s)
ParseInt(cs) ==
    LET signed == Len(cs) >= 1 /\ cs[1] \in {"+", "-"}
        body == IF signed THEN Tail(cs) ELSE cs
    IN  IF Len(body) = 1 /\ IsDigit(body[1])
        THEN [ok |-> TRUE,
              value |-> (IF signed /\ cs[1] = "-" THEN -1 ELSE 1) * DigitValue(body[1])]
        ELSE [ok |-> FALSE, value |-> 0]

\* complex(s) of a string that starts with a float: <float>,
\* <float><signed float>j, <float><sign>j or <float>j, and nothing after.
ParseComplex(cs) ==
    LET a == PrefixFloat(cs)
        rest == SubSeq(cs, a.n + 1, Len(cs))
        b == PrefixFloat(rest)
        tail == IF b.n > 0 THEN SubSeq(rest, b.n + 1, Len(rest)) ELSE Tail(rest)
    IN  IF a.n = 0 THEN [ok |-> FALSE, re |-> 0, im |-> 0]
        ELSE IF rest = <<>> THEN [ok |-> TRUE, re |-> a.value, im |-> 0]
        ELSE IF rest[1] \in {"+", "-"}
        THEN IF tail = <<"j">>
             THEN [ok |-> TRUE, re |-> a.value,
                   im |-> IF b.n > 0 THEN b.value
                          ELSE IF rest[1] = "+" THEN 1 ELSE -1]
             ELSE [ok |-> FALSE, re |-> 0, im |-> 0]
        ELSE IF rest = <<"j">> THEN [ok |-> TRUE, re |-> 0, im |-> a.value]
        ELSE [ok |-> FALSE, re |-> 0, im |-> 0]

\* c2f_dict
C2fDictKeys == {"complex", "complex128", "complex64", "complex256"}

\* c2f(r, i, ctype_name)
C2f(r, i, ctype_name) ==
    IF ctype_name \notin C2fDictKeys THEN DecodeFailed("KeyError")
    ELSE LET re == ParseFloat(r)
             im == ParseFloat(i)
         IN  IF ~re.ok \/ ~im.ok THEN DecodeFailed("ValueError")
             ELSE Decoded([cls |-> IF ctype_name = "complex" THEN "complex128"
                                   ELSE ctype_name,
                           re |-> re.value, im |-> im.value], FALSE)

RECURSIVE Product(_)
Product(shape) == IF shape = <<>> THEN 1 ELSE Head(shape) * Product(Tail(shape))

\* arr.reshape(shape) / _safe_reshape(arr, shape) of what unconvert gave
Reshape(u, shape) ==
    IF u.outcome = "raise" THEN DecodeFailed(u.err)
    ELSE IF Product(shape) # Len(u.data) THEN DecodeFailed("ValueError")
    ELSE Decoded([dtype |-> u.dtype, shape |-> shape, data |-> u.data], u.warned)

\* axes[0].get_indexer(items): each label's position on the axis (the
\* first, when the axis holds the label more than once), -1 for none.
GetIndexer(axis, items) ==
    [k \in 1..Len(items) |->
        IF \E p \in 1..Len(axis.values.data) : axis.values.data[p] = items[k]
        THEN (CHOOSE p \in 1..Len(axis.values.data) :
                  /\ axis.values.data[p] = items[k]
                  /\ \A q \in 1..(p - 1) : axis.values.data[q] # items[k]) - 1
        ELSE -1]

\* The mutated placement: always looked up from the items' labels (the
\* labels at the block's locs when the record carries no items).
PlacementByLabel(b, axes) ==
    GetIndexer(axes[1],
               IF "items" \in DOMAIN b THEN b.items
               ELSE [k \in 1..Len(b.locs) |-> axes[1].values.data[b.locs[k] + 1]])

\* decode.create_block, the placement: locs when the block carries it,
\* else the positions of its items' labels on axis 0.
Placement(b, axes) ==
    IF "locs" \in DOMAIN b THEN b.locs
    ELSE GetIndexer(axes[1], b.items)

\* decode.create_block(b)
CreateBlock(b, axes, badMove) ==
    LET values == Reshape(Unconvert(b.values, DtypeFor(b.dtype), b.compress, badMove),
                          b.shape)
    IN  IF values.outcome = "raise" THEN values
        ELSE Decoded([dtype |-> values.value.dtype,
                      klass |-> b.klass,
                      mgr_locs |-> Placement(b, axes),
                      values |-> values.value],
                     values.warned)

\* decode, the block_manager tag
DecodeBlockManager(obj, badMove) ==
    LET blocks == [i \in 1..Len(obj.blocks) |-> CreateBlock(obj.blocks[i], obj.axes, badMove)]
        failed == {i \in 1..Len(blocks) : blocks[i].outcome = "raise"}
    IN  IF failed # {}
        THEN DecodeFailed(blocks[CHOOSE i \in failed : \A j \in failed : i <= j].err)
        ELSE Decoded([cls |-> obj.klass,
                      axes |-> obj.axes,
                      blocks |-> [i \in 1..Len(blocks) |-> blocks[i].value]],
                     \E i \in 1..Len(blocks) : blocks[i].warned)

\* Index(data, dtype=dtype, name=...) and the like, from what unconvert gave
IndexFrom(u, cls, name) ==
    IF u.outcome = "raise" THEN DecodeFailed(u.err)
    ELSE Decoded([cls |-> cls, name |-> name,
                  values |-> [dtype |-> u.dtype, shape |-> <<Len(u.data)>>,
                              data |-> u.data]],
                 u.warned)

\* decode, the np_scalar and np_complex tags
DecodeNumber(obj) ==
    IF obj.typ = "np_scalar"
    THEN IF Get(obj, "sub_typ") = "np_complex"
         THEN C2f(obj.real, obj.imag, obj.dtype)
         ELSE LET v == IF DtypeFor(obj.dtype) = "float64" THEN ParseFloat(obj.data)
                       ELSE ParseInt(obj.data)
              IN  IF v.ok THEN Decoded([cls |-> DtypeFor(obj.dtype), value |-> v.value], FALSE)
                  ELSE DecodeFailed("ValueError")
    ELSE LET c == ParseComplex(obj.real \o <<"+">> \o obj.imag \o <<"j">>)
         IN  IF c.ok THEN Decoded([cls |-> "complex", re |-> c.re, im |-> c.im], FALSE)
             ELSE DecodeFailed("ValueError")

\* The mutated fallback: a tag that is not dispatched on is an error.
DecodeUnknownRaises(obj) == DecodeFailed("ValueError")

\* decode, the last two branches: a mapping whose tag is not dispatched on
\* is handed back.
DecodeUnknown(obj) == Decoded(obj, FALSE)

\* decode(obj).  badMove: see Unconvert.
Decode(obj, badMove) ==
    LET typ == Get(obj, "typ")
    IN  CASE typ = None -> Decoded(obj, FALSE)
          [] typ = "timestamp" ->
                Decoded([cls |-> "Timestamp", value |-> obj.value, tz |-> obj.tz,
                         freq |-> IF "freq" \in DOMAIN obj THEN obj.freq ELSE obj.offset],
                        FALSE)
          [] typ = "nat" -> Decoded([cls |-> "NaTType"], FALSE)
          [] typ = "period" ->
                Decoded([cls |-> "Period", ordinal |-> obj.ordinal, freqstr |-> obj.freq],
                        FALSE)
          [] typ = "index" ->
                IndexFrom(Unconvert(obj.data, DtypeFor(obj.dtype), Get(obj, "compress"),
                                    badMove),
                          IF DtypeFor(obj.dtype) = "int64" THEN "Int64Index" ELSE "Index",
                          obj.name)
          [] typ = "range_index" ->
                Decoded([cls |-> "RangeIndex", name |-> obj.name, start |-> obj.start,
                         stop |-> obj.stop, step |-> obj.step], FALSE)
          [] typ = "multi_index" ->
                LET u == Unconvert(obj.data, DtypeFor(obj.dtype), Get(obj, "compress"),
                                   badMove)
                IN  IF u.outcome = "raise" THEN DecodeFailed(u.err)
                    ELSE Decoded([cls |-> "MultiIndex", names |-> obj.names,
                                  values |-> [dtype |-> "object", shape |-> <<Len(u.data)>>,
                                              data |-> u.data]], u.warned)
          [] typ = "period_index" ->
                LET u == Unconvert(obj.data, "int64", Get(obj, "compress"), badMove)
                IN  IF u.outcome = "raise" THEN DecodeFailed(u.err)
                    ELSE Decoded([cls |-> "PeriodIndex", name |-> obj.name,
                                  freqstr |-> obj.freq, dtype |-> obj.dtype,
                                  asi8 |-> [dtype |-> "int64", shape |-> <<Len(u.data)>>,
                                            data |-> u.data]], u.warned)
          [] typ = "datetime_index" ->
                LET u == Unconvert(obj.data, "int64", Get(obj, "compress"), badMove)
                IN  IF u.outcome = "raise" THEN DecodeFailed(u.err)
                    ELSE Decoded([cls |-> "DatetimeIndex", name |-> obj.name,
                                  tz |-> obj.tz, freqstr |-> obj.freq,
                                  asi8 |-> [dtype |-> "int64", shape |-> <<Len(u.data)>>,
                                            data |-> u.data]], u.warned)
          [] typ \in {"interval_index", "interval_array"} ->
                IF obj.klass = "IntervalIndex"
                THEN Decoded([cls |-> obj.klass, name |-> obj.name, left |-> obj.left,
                              right |-> obj.right, closed |-> obj.closed], FALSE)
                ELSE DecodeFailed("TypeError")
          [] typ = "category" ->
                Decoded([cls |-> obj.klass, codes |-> obj.codes,
                         categories |-> obj.categories, ordered |-> obj.ordered], FALSE)
          [] typ = "interval" ->
                Decoded([cls |-> "Interval", left |-> obj.left, right |-> obj.right,
                         closed |-> obj.closed], FALSE)
          [] typ = "series" ->
                IF "compress" \notin DOMAIN obj THEN DecodeFailed("KeyError")
                ELSE LET u == Unconvert(obj.data, DtypeFor(obj.dtype), obj.compress, badMove)
                     IN  IF u.outcome = "raise" THEN DecodeFailed(u.err)
                         ELSE Decoded([cls |-> "Series", name |-> obj.name,
                                       index |-> obj.index,
                                       values |-> [dtype |-> u.dtype,
                                                   shape |-> <<Len(u.data)>>,
                                                   data |-> u.data]], u.warned)
          [] typ = "block_manager" -> DecodeBlockManager(obj, badMove)
          [] typ \in {"datetime", "datetime64", "date"} ->
                Decoded([cls |-> typ, iso |-> obj.data], FALSE)
          [] typ = "timedelta" ->
                Decoded([cls |-> "timedelta", days |-> obj.data[1],
                         seconds |-> obj.data[2], microseconds |-> obj.data[3]], FALSE)
          [] typ = "timedelta64" ->
                Decoded([cls |-> "timedelta64", value |-> obj.data], FALSE)
          [] typ = "block_index" ->
                Decoded([cls |-> obj.klass, length |-> obj.length, blocs |-> obj.blocs,
                         blengths |-> obj.blengths], FALSE)
          [] typ = "int_index" ->
                Decoded([cls |-> obj.klass, length |-> obj.length,
                         indices |-> obj.indices], FALSE)
          [] typ = "ndarray" ->
                IF obj.dtype \notin TypeDictKeys THEN DecodeFailed("KeyError")
                ELSE LET r == Reshape(Unconvert(obj.data, obj.dtype, Get(obj, "compress"),
                                                badMove),
                                      obj.shape)
                     IN  IF r.outcome = "raise" THEN r
                         ELSE Decoded([cls |-> "ndarray", dtype |-> r.value.dtype,
                                       shape |-> r.value.shape, data |-> r.value.data],
                                      r.warned)
          [] typ \in {"np_scalar", "np_complex"} -> DecodeNumber(obj)
          [] OTHER -> DecodeUnknown(obj)

\* ========================================================== codec actions

\* The largest size of a real or imaginary part of a scalar of the model.
MaxPart == 1
\* The largest number of columns of a table of the model.
MaxCols == 2

NoObj == [cls |-> "none"]
NoOutcome == [outcome |-> "none", err |-> "none", value |-> None]
NoDecode == [outcome |-> "none", err |-> "none", value |-> None, warned |-> FALSE]

\* The compress arguments a caller passes: absent (None), the two
\* backends, and a name that is no backend.
Backends == {"zlib", "blosc"}
CompressArgs == {None} \cup Backends \cup {"lz4"}

StreamIdle ==
    /\ source = [kind |-> "other", data |-> <<>>]
    /\ streams = <<>>
    /\ it = NoIterator
    /\ gens = <<>>
    /\ result = NoResult

WriteIdle == calls = <<>>

CodecIdle ==
    /\ compressor = None
    /\ o = NoObj
    /\ rec = NoOutcome
    /\ dec = NoDecode
    /\ bad_move = FALSE

\* The shapes of at most two dimensions that hold at most MaxSize elements.
Shapes ==
    {<<n>> : n \in 0..MaxSize}
        \cup {sh \in {<<r, c>> : r \in 1..MaxSize, c \in 1..MaxSize} :
                sh[1] * sh[2] <= MaxSize}

ArraysOf(dtypes, shapes) ==
    UNION {[dtype : dtypes, shape : {sh}, data : [1..Product(sh) -> 0..MaxElem]] :
           sh \in shapes}

NdArrays ==
    {[cls |-> "ndarray", dtype |-> a.dtype, shape |-> a.shape, data |-> a.data] :
     a \in ArraysOf(Dtypes, Shapes)}

RangeIndexOf(n) ==
    [cls |-> "RangeIndex", name |-> None, start |-> 0, stop |-> n, step |-> 1]

SeriesObjs(classes) ==
    {[cls |-> c, name |-> "x", index |-> RangeIndexOf(a.shape[1]), values |-> a] :
     c \in classes, a \in ArraysOf({"int64", "M8[ns]", "object"}, {<<n>> : n \in 1..MaxSize})}

Parts == (-MaxPart)..MaxPart

ComplexScalars ==
    [cls : {"complex64", "complex128", "complex"}, re : Parts, im : Parts]

RealScalars == [cls : {"float64", "int64"}, value : Parts]

\* The values the wire format holds natively: encode hands them back.
NativeObjs == {[cls |-> "str", value |-> "s"], [cls |-> "int", value |-> "s"]}

\* Mappings that no encode of this module wrote: without a tag, and with
\* tags that decode does not dispatch on.
ForeignRecords ==
    {[a |-> 1],
     [data |-> 1, compress |-> "zlib"],
     [typ |-> None, data |-> 1],
     [typ |-> "sparse_series", klass |-> "SparseSeries", compress |-> None],
     [typ |-> "sparse_dataframe", klass |-> "SparseDataFrame"],
     [typ |-> "panel4d", data |-> 1, compress |-> "lz4"]}

\* A table's columns axis and its one-row index.
AxisOf(labels) ==
    [cls |-> "Int64Index", name |-> None,
     values |-> [dtype |-> "int64", shape |-> <<Len(labels)>>, data |-> labels]]

\* Interval containers: an IntervalIndex (an Index, with a name) and an
\* IntervalArray (an extension array: no Index, no name).
IntervalObjs ==
    {[cls |-> "IntervalIndex", name |-> n, left |-> AxisOf(<<l>>),
      right |-> AxisOf(<<l + 1>>), closed |-> c] :
        n \in {None, "x"}, l \in 0..MaxElem, c \in {"left", "right"}}
    \cup
    {[cls |-> "IntervalArray", left |-> AxisOf(<<l>>),
      right |-> AxisOf(<<l + 1>>), closed |-> c] :
        l \in 0..MaxElem, c \in {"left", "right"}}

BlockKlass(dtype) == IF dtype = "float64" THEN "FloatBlock" ELSE "IntBlock"

\* A table of one row from its columns [label, dtype, value], with one
\* block for each column (as column-wise insertion leaves it) or with the
\* columns of one dtype in one block.
FrameOf(cls, cols, consolidated) ==
    LET single == [n \in 1..Len(cols) |->
                      [dtype |-> cols[n].dtype,
                       klass |-> BlockKlass(cols[n].dtype),
                       mgr_locs |-> <<n - 1>>,
                       values |-> [dtype |-> cols[n].dtype, shape |-> <<1, 1>>,
                                   data |-> <<cols[n].value>>]]]
    IN  [cls |-> cls,
         axes |-> <<AxisOf([n \in 1..Len(cols) |-> cols[n].label]), RangeIndexOf(1)>>,
         blocks |-> IF consolidated THEN Consolidate(single) ELSE single]

Labels == {5, 6}
Columns == [label : Labels, dtype : {"int64", "float64"}, value : 0..MaxElem]

Frames(classes) ==
    {FrameOf(c, cols, k) :
     c \in classes, cols \in SeqsUpTo(Columns, MaxCols) \ {<<>>}, k \in BOOLEAN}

\* A table's record as the writers before locs wrote it: each block names
\* its columns by their labels.
LegacyBlockManager(frame, comp) ==
    LET data == IF IsConsolidated(frame.blocks) THEN frame.blocks
                ELSE Consolidate(frame.blocks)
    IN  [typ |-> "block_manager",
         klass |-> frame.cls,
         axes |-> frame.axes,
         blocks |-> [i \in 1..Len(data) |->
                        [items |-> [k \in 1..Len(data[i].mgr_locs) |->
                                       frame.axes[1].values.data[data[i].mgr_locs[k] + 1]],
                         values |-> Convert(data[i].values, comp),
                         shape |-> data[i].values.shape,
                         dtype |-> DtypeName(data[i].dtype),
                         klass |-> data[i].klass,
                         compress |-> comp]]]

\* to_msgpack(path_or_buf, obj, compress=c): the setting is stored in the
\* module's compressor, then pack hands obj to encode.
Pack(c) ==
    /\ o # NoObj
    /\ rec.outcome = "none"
    /\ compressor' = c
    /\ rec' = Encode(o, c)
    /\ UNCHANGED <<o, dec, bad_move, streamVars, writeVars>>

\* A later to_msgpack call, for other objects: it stores its own setting.
OtherWrite(c) ==
    /\ rec.outcome # "none"
    /\ dec.outcome = "none"
    /\ compressor' = c
    /\ UNCHANGED <<o, rec, dec, bad_move, streamVars, writeVars>>

\* unpack hands the record to decode.
DecodeStep(badMove) ==
    /\ rec.outcome = "return"
    /\ dec.outcome = "none"
    /\ dec' = Decode(rec.value, badMove)
    /\ bad_move' = badMove
    /\ UNCHANGED <<compressor, o, rec, streamVars, writeVars>>

\* Arrays, series, scalars and sparse containers through encode and decode,
\* and foreign mappings through decode.
InitCodec ==
    /\ StreamIdle
    /\ WriteIdle
    /\ compressor = None
    /\ dec = NoDecode
    /\ bad_move = FALSE
    /\ \/ /\ o \in NdArrays \cup SeriesObjs({"Series", "SparseSeries"})
                     \cup ComplexScalars \cup RealScalars \cup NativeObjs
                     \cup Frames({"SparseDataFrame"}) \cup IntervalObjs
          /\ rec = NoOutcome
       \/ /\ o = NoObj
          /\ rec \in {Return(m) : m \in ForeignRecords}

NextCodec ==
    \/ \E c \in CompressArgs : Pack(c)
    \/ \E c \in CompressArgs : OtherWrite(c)
    \/ \E badMove \in BOOLEAN : DecodeStep(badMove)

SpecCodec == InitCodec /\ [][NextCodec]_vars

\* Tables through encode and decode, and the records of tables that carry
\* items in the place of locs through decode.
InitFrame ==
    /\ StreamIdle
    /\ WriteIdle
    /\ compressor = None
    /\ dec = NoDecode
    /\ bad_move = FALSE
    /\ o \in Frames({"DataFrame"})
    /\ \/ rec = NoOutcome
       \/ rec \in {Return(LegacyBlockManager(o, c)) : c \in {None} \cup Backends}

NextFrame ==
    \/ \E c \in CompressArgs : Pack(c)
    \/ \E badMove \in BOOLEAN : DecodeStep(badMove)

SpecFrame == InitFrame /\ [][NextFrame]_vars

\* ========================================================== to_msgpack

\* The largest number of to_msgpack calls.
MaxCalls == 2

NoArray == [dtype |-> "none", shape |-> <<>>, data |-> <<>>]

\* The array an object carries in its own record.
ArrayIn(obj) ==
    IF obj.cls = "ndarray"
    THEN [dtype |-> obj.dtype, shape |-> obj.shape, data |-> obj.data]
    ELSE IF "values" \in DOMAIN obj THEN obj.values
    ELSE NoArray

\* The objects the packer finds in a record and hands to encode in turn.
Children(record) ==
    IF Get(record, "typ") = "series" THEN <<record.index>>
    ELSE IF Get(record, "typ") = "block_manager" THEN record.axes
    ELSE <<>>

\* pack(a): the tagged records that encode makes while the packer walks a,
\* each with the array it was made from; a table's record is listed by its
\* blocks.  `comp` is the module's compressor as encode reads it.
RECURSIVE PackTree(_, _)
PackTree(obj, comp) ==
    LET r == Encode(obj, comp)
        data == IF IsConsolidated(obj.blocks) THEN obj.blocks
                ELSE Consolidate(obj.blocks)
        own == IF Get(r.value, "typ") = None THEN <<>>
               ELSE IF r.value.typ = "block_manager"
               THEN [i \in 1..Len(r.value.blocks) |->
                        [rec |-> r.value.blocks[i], src |-> data[i].values]]
               ELSE <<[rec |-> r.value, src |-> ArrayIn(obj)]>>
        below == [k \in 1..Len(Children(r.value)) |->
                     PackTree(Children(r.value)[k], comp)]
    IN  IF r.outcome = "raise" THEN [outcome |-> "raise", err |-> r.err, out |-> <<>>]
        ELSE IF \E k \in 1..Len(below) : below[k].outcome = "raise"
        THEN [outcome |-> "raise", err |-> "error", out |-> <<>>]
        ELSE [outcome |-> "return", err |-> "none",
              out |-> own \o Concat([k \in 1..Len(below) |-> below[k].out])]

Running == {i \in 1..Len(calls) : calls[i].status = "running"}

\* The mutated first statements of to_msgpack: a call without a compress
\* argument leaves the module's compressor as the call before set it.
ToMsgpackBeginKeepsSetting(c, args) ==
    /\ Len(calls) < MaxCalls
    /\ compressor' = IF c = None THEN compressor ELSE c
    /\ calls' = Append(calls, [compress |-> c, args |-> args, pc |-> 0, out |-> <<>>,
                               status |-> "running", err |-> "none"])
    /\ UNCHANGED <<o, rec, dec, bad_move, streamVars>>

\* to_msgpack(path_or_buf, *args, compress=c), its first statements: the
\* argument (None when absent) is stored in the module's compressor.
ToMsgpackBegin(c, args) ==
    /\ Len(calls) < MaxCalls
    /\ compressor' = c
    /\ calls' = Append(calls, [compress |-> c, args |-> args, pc |-> 0, out |-> <<>>,
                               status |-> "running", err |-> "none"])
    /\ UNCHANGED <<o, rec, dec, bad_move, streamVars>>

\* writer: fh.write(pack(a)) for the next of the call's args; an exception
\* from encode ends the call.
WriterStep(i) ==
    /\ calls[i].status = "running"
    /\ calls[i].pc < Len(calls[i].args)
    /\ LET t == PackTree(calls[i].args[calls[i].pc + 1], compressor)
       IN  calls' = [calls EXCEPT ![i] =
                        IF t.outcome = "raise"
                        THEN [@ EXCEPT !.status = "failed", !.err = t.err]
                        ELSE [@ EXCEPT !.pc = @ + 1, !.out = @ \o t.out]]
    /\ UNCHANGED <<compressor, o, rec, dec, bad_move, streamVars>>

\* to_msgpack returns once every arg is written.
ToMsgpackEnd(i) ==
    /\ calls[i].status = "running"
    /\ calls[i].pc = Len(calls[i].args)
    /\ calls' = [calls EXCEPT ![i] = [@ EXCEPT !.status = "done"]]
    /\ UNCHANGED <<compressor, o, rec, dec, bad_move, streamVars>>

\* The objects the calls of the model write.
WrittenArray ==
    [cls |-> "ndarray", dtype |-> "int64", shape |-> <<2>>, data |-> <<1, 0>>]
WrittenObjects ==
    [cls |-> "ndarray", dtype |-> "object", shape |-> <<1>>, data |-> <<1>>]
WrittenSeries ==
    [cls |-> "Series", name |-> "x",
     index |-> AxisOf(<<0, 1>>),
     values |-> [dtype |-> "M8[ns]", shape |-> <<2>>, data |-> <<1, 1>>]]
WrittenFrame ==
    FrameOf("DataFrame",
            <<[label |-> 5, dtype |-> "int64", value |-> 1],
              [label |-> 5, dtype |-> "float64", value |-> 0],
              [label |-> 6, dtype |-> "int64", value |-> 0]>>,
            FALSE)
WrittenSparse ==
    [cls |-> "SparseSeries", name |-> "x", index |-> RangeIndexOf(1),
     values |-> [dtype |-> "int64", shape |-> <<1>>, data |-> <<1>>]]

ArgLists ==
    {<<WrittenArray>>,
     <<WrittenSeries, WrittenObjects>>,
     <<WrittenFrame>>,
     <<[cls |-> "complex", re |-> 1, im |-> 1], WrittenArray>>,
     <<WrittenArray, WrittenSparse>>}

InitWrite ==
    /\ StreamIdle
    /\ CodecIdle
    /\ WriteIdle

\* One call after the other.
NextWrite ==
    \/ \E c \in CompressArgs, args \in ArgLists :
          Running = {} /\ ToMsgpackBegin(c, args)
    \/ \E i \in 1..Len(calls) : WriterStep(i)
    \/ \E i \in 1..Len(calls) : ToMsgpackEnd(i)

SpecWrite == InitWrite /\ [][NextWrite]_vars

\* Another call's first statements run while call i is inside encode of
\* an ndarray, after 'data': convert(obj) has read the module's compressor
\* and before 'compress': compressor reads it again.
ToMsgpackBeginInEncode(i, c, args) ==
    /\ Len(calls) < MaxCalls
    /\ calls[i].status = "running"
    /\ calls[i].pc < Len(calls[i].args)
    /\ calls[i].args[calls[i].pc + 1].cls = "ndarray"
    /\ LET a == calls[i].args[calls[i].pc + 1]
           r == [Encode(a, c).value EXCEPT !.data = Convert(ArrayIn(a), compressor)]
           written == [calls EXCEPT ![i] =
                          [@ EXCEPT !.pc = @ + 1,
                                    !.out = Append(@, [rec |-> r, src |-> ArrayIn(a)])]]
       IN  calls' = Append(written, [compress |-> c, args |-> args, pc |-> 0,
                                     out |-> <<>>, status |-> "running",
                                     err |-> "none"])
    /\ compressor' = c
    /\ UNCHANGED <<o, rec, dec, bad_move, streamVars>>

\* Calls from several threads: a call may begin, and its writer may run,
\* while the writer of another call is under way.
NextRace ==
    \/ \E c \in {None} \cup Backends, args \in ArgLists : ToMsgpackBegin(c, args)
    \/ \E i \in 1..Len(calls) : WriterStep(i)
    \/ \E i \in 1..Len(calls) : ToMsgpackEnd(i)
    \/ \E i \in 1..Len(calls), c \in {None} \cup Backends, args \in ArgLists :
          ToMsgpackBeginInEncode(i, c, args)

SpecRace == InitWrite /\ [][NextRace]_vars

InitStream ==
    /\ source \in [kind : SourceKinds, data : SeqsUpTo(Items, MaxObjs)]
    /\ streams = IF source.kind = "stream" THEN <<NewStream("user")>> ELSE <<>>
    /\ it = NoIterator
    /\ gens = <<>>
    /\ result = NoResult
    /\ CodecIdle
    /\ WriteIdle

NextStream ==
    \/ \E iterator \in BOOLEAN : ReadMsgpack(iterator)
    \/ IteratorInit
    \/ IterCall
    \/ \E i \in 1..Len(gens) : GenNext(i)
    \/ \E i \in 1..Len(gens) : GenClose(i)

SpecStream == InitStream /\ [][NextStream]_vars

\* ---------------------------------------------------------------- C2
AllLocs(record) ==
    \A i \in 1..Len(record.blocks) : "locs" \in DOMAIN record.blocks[i]

\* C2: when a table of N columns is encoded by encode and decoded through
\* the locs path, the placements of the decoded blocks are pairwise
\* disjoint and their union is exactly {0, ..., N-1}.
C2_PlacementsPartition ==
    (dec.outcome = "return" /\ rec.value.typ = "block_manager" /\ AllLocs(rec.value))
    => LET bs == dec.value.blocks
           N == Len(o.axes[1].values.data)
       IN  /\ \A i, j \in 1..Len(bs) :
                 i # j => Range(bs[i].mgr_locs) \cap Range(bs[j].mgr_locs) = {}
           /\ \A i \in 1..Len(bs) :
                 Cardinality(Range(bs[i].mgr_locs)) = Len(bs[i].mgr_locs)
           /\ UNION {Range(bs[i].mgr_locs) : i \in 1..Len(bs)} = 0..(N - 1)

\* A table of two columns of different dtypes (two blocks), written
\* compressed, has been decoded into two blocks.
C2_Witness ==
    /\ dec.outcome = "return"
    /\ AllLocs(rec.value)
    /\ compressor \in Backends
    /\ Len(o.axes[1].values.data) = 2
    /\ Len(dec.value.blocks) = 2

\* ---------------------------------------------------------------- C3
\* C3: decode takes each block's placement from its locs field when the
\* block carries one, and only otherwise from the positions of its items'
\* labels on axis 0; so a table encoded with locs, duplicate labels
\* included, decodes with each column's values at the position of its
\* source column.
C3_PlacementFromLocs ==
    /\ (dec.outcome = "return" /\ rec.value.typ = "block_manager")
       => \A i \in 1..Len(rec.value.blocks) :
             dec.value.blocks[i].mgr_locs =
                IF "locs" \in DOMAIN rec.value.blocks[i]
                THEN rec.value.blocks[i].locs
                ELSE GetIndexer(rec.value.axes[1], rec.value.blocks[i].items)
    /\ (dec.outcome # "none" /\ rec.value.typ = "block_manager" /\ AllLocs(rec.value)
            /\ compressor \in {None} \cup Backends)
       => /\ dec.outcome = "return"
          /\ dec.value.axes = o.axes
          /\ \A p \in 0..(Len(o.axes[1].values.data) - 1) :
                /\ ColumnAt(dec.value.blocks, p) # <<>>
                /\ ColumnAt(dec.value.blocks, p) = ColumnAt(o.blocks, p)

\* A table with two columns of one label, of different dtypes and values,
\* has been encoded with locs and decoded.
C3_Witness ==
    /\ dec.outcome = "return"
    /\ AllLocs(rec.value)
    /\ o.axes[1].values.data = <<5, 5>>
    /\ Len(o.blocks) = 2
    /\ o.blocks[1].dtype = "float64"
    /\ o.blocks[2].dtype = "int64"
    /\ ColumnAt(o.blocks, 0) # ColumnAt(o.blocks, 1)
    /\ ColumnAt(dec.value.blocks, 1) = ColumnAt(o.blocks, 1)

\* ---------------------------------------------------------------- C4
\* The bytes of an array as backend c leaves them.
PayloadUnder(c, a) ==
    LET raw == ArrayToString(a.data, ItemSize(a.dtype))
    IN  IF c = "zlib" THEN ExtType(0, ZlibCompress(raw))
        ELSE IF c = "blosc" THEN ExtType(0, BloscCompress(raw, ItemSize(a.dtype)))
        ELSE ExtType(0, raw)

RecordPayload(record) ==
    IF "data" \in DOMAIN record THEN record.data ELSE record.values

\* C4: in any sequence of to_msgpack calls, each with its own compress
\* argument (None when absent), every array-bearing record that a call
\* writes has a compress field equal to that call's argument, and every
\* byte-flattened payload of a call made with None, zlib or blosc is the
\* array's bytes under exactly that backend; the module's compressor is
\* what the latest call stored: encode and convert only read it.
C4_CompressPerCall ==
    /\ \A i \in 1..Len(calls) : \A k \in 1..Len(calls[i].out) :
          LET e == calls[i].out[k]
          IN  /\ e.src # NoArray
                 => ("compress" \in DOMAIN e.rec /\ e.rec.compress = calls[i].compress)
              /\ (e.src # NoArray /\ e.src.dtype \in ByteDtypes
                     /\ calls[i].compress \in {None} \cup Backends)
                 => RecordPayload(e.rec) = PayloadUnder(calls[i].compress, e.src)
    /\ compressor = IF calls = <<>> THEN None ELSE calls[Len(calls)].compress

\* A call with zlib has written its records, and a later call without a
\* compress argument has written an array-bearing record.
C4_Witness ==
    /\ Len(calls) = 2
    /\ calls[1].compress = "zlib"
    /\ calls[1].status = "done"
    /\ Len(calls[1].out) = 3
    /\ calls[2].compress = None
    /\ Len(calls[2].out) >= 1
    /\ calls[2].out[1].src.dtype = "int64"

\* ---------------------------------------------------------------- C5
\* C5: for each backend in {none, zlib, blosc} and each byte-flattened
\* array, decoding the record that encode made of it gives an array with
\* the same values, dtype and shape, whatever the module's compressor is
\* when the record is decoded.
C5_ArrayRoundTrip ==
    (o.cls = "ndarray" /\ o.dtype \in ByteDtypes /\ dec.outcome # "none"
        /\ rec.value.compress \in {None} \cup Backends)
    => (dec.outcome = "return" /\ dec.value = o)

\* ---------------------------------------------------------------- C6
\* C6: encode of a sparse series or a sparse data frame raises
\* NotImplementedError under every compression setting; it returns no
\* record and not the object itself.
C6_SparseNotImplemented ==
    (o.cls \in {"SparseSeries", "SparseDataFrame"} /\ rec.outcome # "none")
    => (rec.outcome = "raise" /\ rec.err = "NotImplementedError")

\* A sparse data frame has been handed to encode with a backend set.
C6_Witness ==
    /\ o.cls = "SparseDataFrame"
    /\ compressor = "blosc"
    /\ rec.outcome = "raise"

\* ---------------------------------------------------------------- C7
\* C7: a compress value outside {None, zlib, blosc} that reaches the codec
\* as the setting of a write call makes the call fail with the ValueError
\* that lists the valid choices; the call writes nothing.
C7_UnknownCompressFails ==
    \A i \in 1..Len(calls) :
        (calls[i].compress \notin {None} \cup Backends
            /\ calls[i].status # "running"
            /\ \E k \in 1..Len(calls[i].args) : ArrayIn(calls[i].args[k]) # NoArray)
        => (calls[i].status = "failed" /\ calls[i].err = "ValueError"
                /\ calls[i].out = <<>>)

\* ---------------------------------------------------------------- C9
\* C9: decode of a mapping that has no typ field, or whose typ is none of
\* the tags decode dispatches on, returns that mapping with all its fields
\* unchanged and raises nothing.
C9_UnknownTagPassthrough ==
    (dec.outcome # "none" /\ Get(rec.value, "typ") \notin DispatchTags)
    => dec = Decoded(rec.value, FALSE)

\* A mapping with a tag that decode does not dispatch on has been decoded.
C9_Witness ==
    /\ dec.outcome = "return"
    /\ "typ" \in DOMAIN rec.value
    /\ rec.value.typ = "sparse_series"

\* --------------------------------------------------------------- C10
\* C10: for every complex scalar, a numpy complex of each width or a
\* built-in complex, with either sign of its real and of its imaginary
\* part, decode(encode(v)) succeeds and equals v.
C10_ComplexRoundTrip ==
    (o.cls \in {"complex64", "complex128", "complex"} /\ dec.outcome # "none")
    => (dec.outcome = "return" /\ dec.value = o)

\* ---------------------------------------------------------------- C1
\* C1: a stream the Iterator opened itself (source a path or raw bytes) is
\* closed once the iteration that opened it has ended, by exhaustion, by a
\* decode error or by early termination; a stream that was passed in open
\* is never closed by the Iterator.
C1_OwnedStreamsClosed ==
    /\ \A i \in 1..Len(gens) :
          (gens[i].pc \in Finished /\ gens[i].fh # 0
              /\ streams[gens[i].fh].owner = "iter")
          => ~streams[gens[i].fh].open
    /\ \A s \in 1..Len(streams) :
          streams[s].owner = "iter"
          => \E i \in 1..Len(gens) : gens[i].fh = s
    /\ \A s \in 1..Len(streams) :
          streams[s].owner # "iter" => streams[s].closedBy # "iter"

\* An iteration over a path or bytes source was ended early, after it had
\* produced an object, and the stream it opened is closed.
C1_Witness ==
    \E i \in 1..Len(gens) :
        /\ it.path \in {"path", "bytes"}
        /\ gens[i].pc = "closed"
        /\ gens[i].yielded > 0
        /\ streams[gens[i].fh].owner = "iter"
        /\ ~streams[gens[i].fh].open

\* ---------------------------------------------------------------- C8
\* C8: read_msgpack on a str path that names no file fails: the call raises
\* FileNotFoundError, an outcome distinct from the malformed-source
\* ValueError and from every value the call returns.
C8_MissingPathRaises ==
    (source.kind = "missing" /\ ~it.made /\ result.outcome # "none")
    => (result.outcome = "raise" /\ result.type = "FileNotFoundError")

\* --------------------------------------------------------------- C11
\* C11: the Iterator's sequence is not restartable: once a generator of an
\* Iterator has run to exhaustion, a generator of the same Iterator that
\* is started afterwards produces no object, whatever the source is (a
\* path, raw bytes, an open stream).
C11_NonRestartable ==
    [][\A i, j \in 1..Len(gens) :
          (gens[i].pc = "done" /\ gens[j].pc = "created")
          => gens'[j].yielded = 0]_vars

\* --------------------------------------------------------------- C15
\* C15: when the Iterator fails before it has bound a stream (the source
\* is a str that names no file, say), the caller sees that first failure:
\* the finally block raises nothing of its own.
C15_OriginalFailureSeen ==
    \A i \in 1..Len(gens) :
        (gens[i].pc = "failed" /\ gens[i].fh = 0)
        => gens[i].error = "TypeError"

\* --------------------------------------------------------------- C16
\* C16: an eager read_msgpack that returns has closed the buffer that
\* source resolution marked as should_close, whether it has decoded one
\* top-level object, none or several.
C16_ShouldCloseBufferClosed ==
    (~it.made /\ result.outcome = "return" /\ result.type \in {"object", "list"})
    => \A s \in 1..Len(streams) :
          streams[s].owner = "resolver" => ~streams[s].open

\* --------------------------------------------------------------- C12
\* C12: when to_msgpack calls with different compress arguments run
\* interleaved, every array-bearing record that a call writes has a
\* compress field equal to that call's own argument and a byte payload
\* compressed with that call's own backend, and the payload's compression
\* is what the record's compress field says.
C12_InterleavedCallsKeepSetting ==
    \A i \in 1..Len(calls) : \A k \in 1..Len(calls[i].out) :
        LET e == calls[i].out[k]
        IN  e.src # NoArray
            => /\ e.rec.compress = calls[i].compress
               /\ e.src.dtype \in ByteDtypes
                  => /\ RecordPayload(e.rec) = PayloadUnder(calls[i].compress, e.src)
                     /\ RecordPayload(e.rec) = PayloadUnder(e.rec.compress, e.src)

\* --------------------------------------------------------------- C13
\* C13: encode tells interval containers apart by their runtime type: an
\* IntervalIndex gives a record with typ 'interval_index', an
\* IntervalArray a record with typ 'interval_array', each with the
\* object's left, right and closed; neither is handed back unchanged.
C13_IntervalDispatch ==
    (o.cls \in {"IntervalIndex", "IntervalArray"} /\ rec.outcome # "none")
    => /\ rec.outcome = "return"
       /\ rec.value # o
       /\ Get(rec.value, "typ") = IF o.cls = "IntervalIndex" THEN "interval_index"
                                  ELSE "interval_array"
       /\ rec.value.left = o.left
       /\ rec.value.right = o.right
       /\ rec.value.closed = o.closed

\* --------------------------------------------------------------- C14
\* C14: when unconvert is called with a backend named and the move of the
\* decompressed bytes into a mutable buffer raises BadMove, the call still
\* returns a writable array equal to the decompressed data, and a
\* PerformanceWarning is emitted exactly when that data is longer than
\* one byte; on every other path no warning is emitted.
C14_BadMoveRecovered ==
    /\ (/\ dec.outcome # "none"
        /\ bad_move
        /\ o.cls \in {"ndarray", "Series"}
        /\ ArrayIn(o).dtype \in ByteDtypes
        /\ rec.value.compress \in Backends)
       => LET a == ArrayIn(o)
              u == Unconvert(rec.value.data, a.dtype, rec.value.compress, TRUE)
              n == Len(a.data) * ItemSize(a.dtype)
          IN  /\ u.outcome = "return"
              /\ u.writable
              /\ u.dtype = a.dtype
              /\ u.data = a.data
              /\ u.warned = (n > 1)
              /\ dec.outcome = "return" => dec.warned = (n > 1)
    /\ dec.warned
       => /\ bad_move
          /\ "compress" \in DOMAIN rec.value
          /\ rec.value.compress \in Backends

\* An array of two one-byte elements, written with zlib, has been restored
\* after a BadMove, with the warning.
C14_Witness ==
    /\ bad_move
    /\ o.cls = "ndarray"
    /\ o.dtype = "int8"
    /\ o.shape = <<2>>
    /\ rec.value.compress = "zlib"
    /\ dec.outcome = "return"
    /\ dec.value.data = o.data
    /\ dec.warned

====
